---- MODULE Spec2Model ----
(***************************************************************************)
(* Model of ml_server.app.model_service.ModelService: the in-memory       *)
(* handle _booster, the lifecycle lock _lock, and the on-disk model state  *)
(* (timestamped files model_<ts>.txt and the canonical path model_path),   *)
(* driven by concurrent calls of load_or_train, train_from_file, predict.  *)
(*                                                                         *)
(* File contents and handles are integers: 0 is "no file" / None, m > 0 is *)
(* the complete serialisation of the model produced by the m-th fit, and   *)
(* -m is a partially written (truncated) serialisation of model m.         *)
(*                                                                         *)
(* SpecSched adds main._schedule_daily_training, the background task that  *)
(* calls train_from_file once a day; SpecPredict follows one predict       *)
(* request through the array handling of lines 128-133.                    *)
(***************************************************************************)
EXTENDS Integers, Sequences, FiniteSets, TLC

\* Bounds of the model.
NCalls == 2      \* concurrent calls, each made by its own thread
MaxClock == 2    \* wall-clock seconds 1..MaxClock (0 is a previous run's second)
MaxLines == 3    \* lines of a CSV source
MaxCols == 2     \* fields per line of a CSV source
MaxDays == 2     \* days the background task is followed for
MaxLate == 1     \* hours a wake-up, and a scheduled training, may take
MaxFeat == 2     \* values per row of a predict request, features of a model
MaxBatch == 2    \* rows per predict request

\* The daily run is at 02:00, and a day has 24 hours.
RunHour == 2
DayHours == 24

Threads == 1..NCalls
Stamps == 0..MaxClock

VARIABLES
    booster,      \* self._booster: 0 is None
    lock,         \* self._lock: 0 is free, else the holding thread
    model_path,   \* the directory entry at self.model_path
    tsfile,       \* tsfile[s]: content of model_<s>.txt
    clock,        \* the last second datetime.now() returned
    pc,           \* pc[t]: position of thread t in its call
    op,           \* op[t]: the operation thread t called
    mine,         \* mine[t]: local variable booster (the model this call fitted)
    ts,           \* ts[t]: local variable ts / ts_path of _save_booster
    src,          \* src[t]: the CSV at data_path, kept while the call fails on it
    exc,          \* exc[t]: the exception the call is raising / raised
    ret,          \* ret[t]: the call's return value
    pre,          \* pre[t]: handle and disk as they were when t took the lock
    nTrained,     \* number of lgb.train fits so far (model ids)
    nSynth,       \* number of synthetic-data fits so far
    writes,       \* writes[s]: how many line-34 writes went to model_<s>.txt
    published,    \* a model has been published at model_path
    \* main._schedule_daily_training, the background task:
    spc,          \* its position ("off": not started)
    wall,         \* the local wall clock, in hours since midnight of day 0
    now,          \* local variable now
    next_run,     \* local variable next_run
    wait_seconds, \* local variable wait_seconds (here in hours)
    errlog,       \* number of logger.exception records written
    failed,       \* number of scheduled trainings that raised
    lastRun,      \* wall clock at the start of the last scheduled training
    \* one predict request past its ensure-loaded check (lines 128-133):
    ppc,          \* its position ("off": none)
    features,     \* the argument features
    X,            \* local variable X, a numpy array
    preds,        \* the returned list, or the exception raised
    twin,         \* the previous request and its result
    nfeat         \* number of features of the model behind the handle

\* Frames of the background task and of the predict request.
Sched == <<spc, wall, now, next_run, wait_seconds, errlog, failed, lastRun>>
Request == <<ppc, features, X, preds, twin, nfeat>>

vars == <<booster, lock, model_path, tsfile, clock, pc, op, mine, ts, src, exc,
          ret, pre, nTrained, nSynth, writes, published, Sched, Request>>

None == 0
\* No data_path in scope, and the data_path at which no file exists.
NoSrc == [exists |-> FALSE, lines |-> -1, cols |-> 0, header |-> FALSE, ragged |-> FALSE]
Missing == [exists |-> FALSE, lines |-> 0, cols |-> 0, header |-> FALSE, ragged |-> FALSE]

----------------------------------------------------------------------------
\* The file system.

Absent == [kind |-> "absent", target |-> 0, data |-> 0]
Link(s) == [kind |-> "link", target |-> s, data |-> 0]
File(d) == [kind |-> "file", target |-> 0, data |-> d]

\* os.path.islink(p)
islink(p) == p.kind = "link"

\* os.path.exists(p): follows a link, False for a dangling one
exists(p, fs) ==
    \/ p.kind = "file"
    \/ p.kind = "link" /\ fs[p.target] # 0

\* What a reader that opens model_path gets.
Resolve(p, fs) ==
    IF p.kind = "file" THEN p.data
    ELSE IF p.kind = "link" THEN fs[p.target]
    ELSE 0

\* open(model_path, "w") and write d: follows a link to its target.
WritePtr(p, d) == IF p.kind = "link" THEN p ELSE File(d)
WriteFs(p, fs, d) == IF p.kind = "link" THEN [fs EXCEPT ![p.target] = d] ELSE fs

NoPre == [b |-> 0, p |-> Absent, c |-> 0, fs |-> [s \in Stamps |-> 0]]

----------------------------------------------------------------------------
\* The CSV at data_path and its parse (lines 89-108 of train_from_file).
\* A source is: whether the file exists, its number of lines, the number of
\* fields of its lines, whether line 1 is a non-numeric header, and whether
\* some line after line 1 has a different number of fields (ragged).

Sources ==
    {Missing} \cup
    {[exists |-> TRUE, lines |-> l, cols |-> c, header |-> h, ragged |-> r] :
        l \in 0..MaxLines, c \in 1..MaxCols, h \in BOOLEAN, r \in BOOLEAN}

WellFormed(s) ==
    /\ s.header => s.lines >= 1
    /\ s.ragged => s.lines >= 3
    /\ s.lines = 0 => s.cols = 1

ParseError == [err |-> TRUE, shape |-> <<>>]
Parsed(sh) == [err |-> FALSE, shape |-> sh]

\* numpy squeezes the (rows, cols) result: axes of length 1 are dropped; an
\* input without rows gives the empty 1-D array.
Squeeze(rows, cols) ==
    IF rows = 0 THEN <<0>>
    ELSE SelectSeq(<<rows, cols>>, LAMBDA d : d # 1)

\* np.genfromtxt(data_path, delimiter=",", dtype=np.float32, skip_header=1):
\* line 1 is dropped unread, a non-numeric field becomes nan, and rows of
\* different widths raise ValueError.
genfromtxt(s) ==
    IF s.ragged THEN ParseError
    ELSE Parsed(Squeeze(IF s.lines > 0 THEN s.lines - 1 ELSE 0, s.cols))

\* np.loadtxt(data_path, delimiter=",", dtype=np.float32): every line is read;
\* a non-numeric field or rows of different widths raise ValueError.
loadtxt(s) ==
    IF s.header \/ s.ragged THEN ParseError
    ELSE Parsed(Squeeze(s.lines, s.cols))

\* try genfromtxt ... except ValueError: loadtxt
LoadCsv(s) == IF genfromtxt(s).err THEN loadtxt(s) ELSE genfromtxt(s)

\* data.ndim == 1, then data.shape[1] < 2 (Python's shape[1] is the second axis).
Validate(sh) ==
    IF Len(sh) = 1 THEN "ValueError"
    ELSE IF Len(sh) < 2 THEN "IndexError"
    ELSE IF sh[2] < 2 THEN "ValueError"
    ELSE "ok"

\* The outcome of lines 89-108 on source s: an exception name, or "ok".
CheckSource(s) ==
    IF ~s.exists THEN "FileNotFoundError"
    ELSE IF LoadCsv(s).err THEN "ValueError"
    ELSE Validate(LoadCsv(s).shape)

\* Rows of the matrix handed to lgb.Dataset (line 113) when the parse is accepted.
FitRows(s) == LoadCsv(s).shape[1]

CsvInputs == {s \in Sources : WellFormed(s)}

----------------------------------------------------------------------------
\* Initial states: a freshly constructed ModelService (handle None, lock free)
\* over an empty models directory, or over the directory a previous run left:
\* model 1 in model_0.txt and model_path a link to it.

\* No array, no result, no request.
NoArray == [shape |-> <<>>, data |-> <<>>]
NoPreds == [exc |-> "none", values |-> <<>>]
NoInput == [kind |-> "none", v |-> <<>>]

\* The background task is not running (DISABLE_SCHEDULER=1, or before startup).
SchedOff ==
    /\ spc = "off" /\ wall = 0 /\ now = 0 /\ next_run = 0 /\ wait_seconds = 0
    /\ errlog = 0 /\ failed = 0 /\ lastRun = -1

\* No predict request is being computed.
RequestOff ==
    /\ ppc = "off" /\ features = NoInput /\ X = NoArray /\ preds = NoPreds
    /\ twin = [features |-> NoInput, preds |-> NoPreds] /\ nfeat = 0

Init ==
    /\ SchedOff
    /\ RequestOff
    /\ booster = None
    /\ lock = 0
    /\ clock = 1
    /\ pc = [t \in Threads |-> "idle"]
    /\ op = [t \in Threads |-> "none"]
    /\ mine = [t \in Threads |-> 0]
    /\ ts = [t \in Threads |-> 0]
    /\ src = [t \in Threads |-> NoSrc]
    /\ exc = [t \in Threads |-> "none"]
    /\ ret = [t \in Threads |-> 0]
    /\ pre = [t \in Threads |-> NoPre]
    /\ nSynth = 0
    /\ \/ /\ model_path = Absent
          /\ tsfile = [s \in Stamps |-> 0]
          /\ nTrained = 0
          /\ writes = [s \in Stamps |-> 0]
          /\ published = FALSE
       \/ /\ model_path = Link(0)
          /\ tsfile = [s \in Stamps |-> IF s = 0 THEN 1 ELSE 0]
          /\ nTrained = 1
          /\ writes = [s \in Stamps |-> IF s = 0 THEN 1 ELSE 0]
          /\ published = TRUE

\* Frames.
Disk == <<model_path, tsfile>>
Locals == <<mine, ts, src>>
History == <<nTrained, nSynth, writes, published>>

\* Mutant of LockFree: the with block does not exclude other threads.
LockFreeIgnored(t) == TRUE

\* self._lock can be acquired by t (threading.Lock, not reentrant).
LockFree(t) == lock = 0

\* Mutant of HandleLoaded: the test of the handle never sees it loaded.
HandleLoadedNever(b) == FALSE

\* `self._booster is not None`
HandleLoaded(b) == b # None

\* datetime.now() at second resolution: a second not before the last one read.
Now == clock..MaxClock

\* A thread calls one of the three public methods. Threads are interchangeable:
\* they are numbered in the order of their calls.
Call(t, o) ==
    /\ pc[t] = "idle"
    /\ \A u \in Threads : u < t => pc[u] # "idle"
    /\ op' = [op EXCEPT ![t] = o]
    /\ pc' = [pc EXCEPT ![t] = CASE o = "load_or_train" -> "L_lock"
                                  [] o = "train_from_file" -> "T_lock"
                                  [] o = "predict" -> "P_check"]
    /\ UNCHANGED <<Sched, Request, booster, lock, Disk, clock, Locals, exc, ret, pre, History>>

\* Mutant of Acquire: the block is entered without taking the lock.
AcquireSkipsLock(t) ==
    /\ pc[t] \in {"L_lock", "T_lock"}
    /\ pc' = [pc EXCEPT ![t] = IF pc[t] = "L_lock" THEN "L_in" ELSE "T_in"]
    /\ pre' = [pre EXCEPT ![t] = [b |-> booster, p |-> model_path,
                                  c |-> Resolve(model_path, tsfile), fs |-> tsfile]]
    /\ UNCHANGED <<Sched, Request, booster, lock, Disk, clock, op, Locals, exc, ret, History>>

\* `with self._lock:` entered (lines 50, 88).
Acquire(t) ==
    /\ pc[t] \in {"L_lock", "T_lock"}
    /\ LockFree(t)
    /\ lock' = t
    /\ pc' = [pc EXCEPT ![t] = IF pc[t] = "L_lock" THEN "L_in" ELSE "T_in"]
    /\ pre' = [pre EXCEPT ![t] = [b |-> booster, p |-> model_path,
                                  c |-> Resolve(model_path, tsfile), fs |-> tsfile]]
    /\ UNCHANGED <<Sched, Request, booster, Disk, clock, op, Locals, exc, ret, History>>

\* The thread leaves the with block on line lbl with exception e ("none": a return).
Leave(t, e) ==
    /\ pc' = [pc EXCEPT ![t] = "unlock"]
    /\ exc' = [exc EXCEPT ![t] = e]

----------------------------------------------------------------------------
\* load_or_train, inside the lock (lines 51-77).

\* Mutant of LoadNoop: the early return is missing and a loaded handle is
\* loaded again from the file.
LoadNoopFallsThrough(t) ==
    /\ pc[t] = "L_in"
    /\ HandleLoaded(booster)
    /\ pc' = [pc EXCEPT ![t] = "L_load"]
    /\ UNCHANGED <<Sched, Request, booster, lock, Disk, clock, op, Locals, exc, ret, pre, History>>

\* Lines 51-52: the handle is loaded, return.
LoadNoop(t) ==
    /\ pc[t] = "L_in"
    /\ HandleLoaded(booster)
    /\ Leave(t, "none")
    /\ UNCHANGED <<Sched, Request, booster, lock, Disk, clock, op, Locals, ret, pre, History>>

\* Line 53: the handle is None and a file exists at model_path.
LoadExists(t) ==
    /\ pc[t] = "L_in"
    /\ ~HandleLoaded(booster)
    /\ exists(model_path, tsfile)
    /\ pc' = [pc EXCEPT ![t] = "L_load"]
    /\ UNCHANGED <<Sched, Request, booster, lock, Disk, clock, op, Locals, exc, ret, pre, History>>

\* Mutant of LoadFile: the deserialized model is not stored in self._booster.
LoadFileDrops(t) ==
    /\ pc[t] = "L_load"
    /\ Leave(t, "none")
    /\ UNCHANGED <<Sched, Request, booster, lock, Disk, clock, op, Locals, ret, pre, History>>

\* Lines 54-55: lgb.Booster(model_file=self.model_path) deserializes it. A
\* truncated file either loads as the truncated model ...
LoadFile(t) ==
    /\ pc[t] = "L_load"
    /\ booster' = Resolve(model_path, tsfile)
    /\ Leave(t, "none")
    /\ UNCHANGED <<Sched, Request, lock, Disk, clock, op, Locals, ret, pre, History>>

\* ... or is rejected by the library.
LoadFileFail(t) ==
    /\ pc[t] = "L_load"
    /\ Resolve(model_path, tsfile) < 0
    /\ Leave(t, "LightGBMError")
    /\ UNCHANGED <<Sched, Request, booster, lock, Disk, clock, op, Locals, ret, pre, History>>

\* Lines 57-76: no file, fit the demo model on the fixed-seed synthetic data.
LoadTrain(t) ==
    /\ pc[t] = "L_in"
    /\ ~HandleLoaded(booster)
    /\ ~exists(model_path, tsfile)
    /\ nTrained' = nTrained + 1
    /\ nSynth' = nSynth + 1
    /\ mine' = [mine EXCEPT ![t] = nTrained + 1]
    /\ pc' = [pc EXCEPT ![t] = "S_ts"]
    /\ UNCHANGED <<Sched, Request, booster, lock, Disk, clock, op, ts, src, exc, ret, pre, writes,
                   published>>

----------------------------------------------------------------------------
\* train_from_file, inside the lock (lines 89-120).

\* Lines 89-108 raise on the source.
TrainReject(t) ==
    /\ pc[t] = "T_in"
    /\ \E s \in CsvInputs :
          /\ CheckSource(s) # "ok"
          /\ src' = [src EXCEPT ![t] = s]
          /\ Leave(t, CheckSource(s))
    /\ UNCHANGED <<Sched, Request, booster, lock, Disk, clock, op, mine, ts, ret, pre, History>>

\* Lines 110-119: the source is accepted and lgb.train fits a new model.
TrainFit(t) ==
    /\ pc[t] = "T_in"
    /\ \E s \in CsvInputs :
          /\ CheckSource(s) = "ok"
          /\ src' = [src EXCEPT ![t] = s]
    /\ nTrained' = nTrained + 1
    /\ mine' = [mine EXCEPT ![t] = nTrained + 1]
    /\ pc' = [pc EXCEPT ![t] = "S_ts"]
    /\ UNCHANGED <<Sched, Request, booster, lock, Disk, clock, op, ts, exc, ret, pre, nSynth, writes,
                   published>>

\* Lines 113-119: the library raises while fitting.
TrainFitFail(t) ==
    /\ pc[t] = "T_in"
    /\ \E s \in CsvInputs :
          /\ CheckSource(s) = "ok"
          /\ src' = [src EXCEPT ![t] = s]
    /\ Leave(t, "LightGBMError")
    /\ UNCHANGED <<Sched, Request, booster, lock, Disk, clock, op, mine, ts, ret, pre, History>>

----------------------------------------------------------------------------
\* _save_booster (lines 30-47), called with the lock held.

\* Lines 30-33: ts = now at second resolution, ts_path = model_<ts>.txt.
SaveStamp(t) ==
    /\ pc[t] = "S_ts"
    /\ \E sec \in Now :
          /\ clock' = sec
          /\ ts' = [ts EXCEPT ![t] = sec]
    /\ src' = [src EXCEPT ![t] = NoSrc]
    /\ pc' = [pc EXCEPT ![t] = "S_w1"]
    /\ UNCHANGED <<Sched, Request, booster, lock, Disk, op, mine, exc, ret, pre, History>>

\* Line 34, booster.save_model(ts_path): the file is created or truncated ...
SaveTsOpen(t) ==
    /\ pc[t] = "S_w1"
    /\ tsfile' = [tsfile EXCEPT ![ts[t]] = -mine[t]]
    /\ writes' = [writes EXCEPT ![ts[t]] = @ + 1]
    /\ pc' = [pc EXCEPT ![t] = "S_w2"]
    /\ UNCHANGED <<Sched, Request, booster, lock, model_path, clock, op, Locals, exc, ret, pre,
                   nTrained, nSynth, published>>

\* ... or cannot be opened (lines 32, 34 raise) ...
SaveTsOpenFail(t) ==
    /\ pc[t] = "S_w1"
    /\ Leave(t, "LightGBMError")
    /\ UNCHANGED <<Sched, Request, booster, lock, Disk, clock, op, Locals, ret, pre, History>>

\* ... then the write completes ...
SaveTsFinish(t) ==
    /\ pc[t] = "S_w2"
    /\ tsfile' = [tsfile EXCEPT ![ts[t]] = mine[t]]
    /\ pc' = [pc EXCEPT ![t] = "S_rm"]
    /\ UNCHANGED <<Sched, Request, booster, lock, model_path, clock, op, Locals, exc, ret, pre,
                   History>>

\* ... or fails half way and raises.
SaveTsFail(t) ==
    /\ pc[t] = "S_w2"
    /\ Leave(t, "LightGBMError")
    /\ UNCHANGED <<Sched, Request, booster, lock, Disk, clock, op, Locals, ret, pre, History>>

\* Line 37: os.path.islink(self.model_path) or os.path.exists(self.model_path)
PtrPresent(p, fs) == islink(p) \/ exists(p, fs)

\* Lines 37-39: the old pointer is removed.
PtrRemove(t) ==
    /\ pc[t] = "S_rm"
    /\ PtrPresent(model_path, tsfile)
    /\ model_path' = Absent
    /\ pc' = [pc EXCEPT ![t] = "S_ln"]
    /\ UNCHANGED <<Sched, Request, booster, lock, tsfile, clock, op, Locals, exc, ret, pre, History>>

\* Lines 40-41: os.remove raises OSError, which is swallowed.
PtrRemoveFail(t) ==
    /\ pc[t] = "S_rm"
    /\ PtrPresent(model_path, tsfile)
    /\ pc' = [pc EXCEPT ![t] = "S_ln"]
    /\ UNCHANGED <<Sched, Request, booster, lock, Disk, clock, op, Locals, exc, ret, pre, History>>

\* Line 37 is false: nothing to remove.
PtrRemoveSkip(t) ==
    /\ pc[t] = "S_rm"
    /\ ~PtrPresent(model_path, tsfile)
    /\ pc' = [pc EXCEPT ![t] = "S_ln"]
    /\ UNCHANGED <<Sched, Request, booster, lock, Disk, clock, op, Locals, exc, ret, pre, History>>

\* Mutant of LinkTarget: the link is made to a fixed name, not to ts_path.
LinkTargetStale(t) == 0

\* The target of os.symlink(os.path.basename(ts_path), self.model_path).
LinkTarget(t) == ts[t]

\* Line 42: the link is created.
Symlink(t) ==
    /\ pc[t] = "S_ln"
    /\ model_path.kind = "absent"
    /\ model_path' = Link(LinkTarget(t))
    /\ published' = TRUE
    /\ pc' = [pc EXCEPT ![t] = "S_set"]
    /\ UNCHANGED <<Sched, Request, booster, lock, tsfile, clock, op, Locals, exc, ret, pre, nTrained,
                   nSynth, writes>>

\* Line 42 raises FileExistsError: the entry is still there.
SymlinkExists(t) ==
    /\ pc[t] = "S_ln"
    /\ model_path.kind # "absent"
    /\ pc' = [pc EXCEPT ![t] = "S_f1"]
    /\ UNCHANGED <<Sched, Request, booster, lock, Disk, clock, op, Locals, exc, ret, pre, History>>

\* Mutant of SymlinkFail: the OSError is not caught and leaves the call.
SymlinkFailRaises(t) ==
    /\ pc[t] = "S_ln"
    /\ model_path.kind = "absent"
    /\ Leave(t, "OSError")
    /\ UNCHANGED <<Sched, Request, booster, lock, Disk, clock, op, Locals, ret, pre, History>>

\* Line 42 raises another OSError: links are not supported or not permitted.
SymlinkFail(t) ==
    /\ pc[t] = "S_ln"
    /\ model_path.kind = "absent"
    /\ pc' = [pc EXCEPT ![t] = "S_f1"]
    /\ UNCHANGED <<Sched, Request, booster, lock, Disk, clock, op, Locals, exc, ret, pre, History>>

\* Line 45, booster.save_model(self.model_path): created or truncated ...
FallbackOpen(t) ==
    /\ pc[t] = "S_f1"
    /\ model_path' = WritePtr(model_path, -mine[t])
    /\ tsfile' = WriteFs(model_path, tsfile, -mine[t])
    /\ pc' = [pc EXCEPT ![t] = "S_f2"]
    /\ UNCHANGED <<Sched, Request, booster, lock, clock, op, Locals, exc, ret, pre, History>>

FallbackOpenFail(t) ==
    /\ pc[t] = "S_f1"
    /\ Leave(t, "LightGBMError")
    /\ UNCHANGED <<Sched, Request, booster, lock, Disk, clock, op, Locals, ret, pre, History>>

\* ... then completed ...
FallbackFinish(t) ==
    /\ pc[t] = "S_f2"
    /\ model_path' = WritePtr(model_path, mine[t])
    /\ tsfile' = WriteFs(model_path, tsfile, mine[t])
    /\ published' = TRUE
    /\ pc' = [pc EXCEPT ![t] = "S_set"]
    /\ UNCHANGED <<Sched, Request, booster, lock, clock, op, Locals, exc, ret, pre, nTrained, nSynth,
                   writes>>

\* ... or fails half way and raises out of the except block.
FallbackFail(t) ==
    /\ pc[t] = "S_f2"
    /\ Leave(t, "LightGBMError")
    /\ UNCHANGED <<Sched, Request, booster, lock, Disk, clock, op, Locals, ret, pre, History>>

\* Mutant of SetHandle: line 46 is missing, the handle is not replaced.
SetHandleForgets(t) ==
    /\ pc[t] = "S_set"
    /\ ret' = [ret EXCEPT ![t] = IF op[t] = "train_from_file" THEN ts[t] ELSE 0]
    /\ pc' = [pc EXCEPT ![t] = "unlock"]
    /\ exc' = [exc EXCEPT ![t] = "none"]
    /\ UNCHANGED <<Sched, Request, booster, lock, Disk, clock, op, Locals, pre, History>>

\* Lines 46-47: the handle is replaced and ts_path returned; train_from_file
\* returns it (lines 120-121), load_or_train drops it (line 77).
SetHandle(t) ==
    /\ pc[t] = "S_set"
    /\ booster' = mine[t]
    /\ ret' = [ret EXCEPT ![t] = IF op[t] = "train_from_file" THEN ts[t] ELSE 0]
    /\ Leave(t, "none")
    /\ UNCHANGED <<Sched, Request, lock, Disk, clock, op, Locals, pre, History>>

\* Mutant of Release: the lock is released on return only, not on exception.
ReleaseOnReturnOnly(t) ==
    /\ pc[t] = "unlock"
    /\ lock' = IF exc[t] = "none" THEN 0 ELSE lock
    /\ mine' = [mine EXCEPT ![t] = 0]
    /\ ts' = [ts EXCEPT ![t] = 0]
    /\ src' = [src EXCEPT ![t] = NoSrc]
    /\ pre' = [pre EXCEPT ![t] = NoPre]
    /\ pc' = [pc EXCEPT ![t] = IF op[t] = "predict" /\ exc[t] = "none"
                                  THEN "P_assert" ELSE "done"]
    /\ UNCHANGED <<Sched, Request, booster, Disk, clock, op, exc, ret, History>>

\* The with block is left (return or exception): the lock is released and
\* the call's locals go out of scope. predict goes on to line 126 when its
\* load_or_train returned.
Release(t) ==
    /\ pc[t] = "unlock"
    /\ lock' = 0
    /\ mine' = [mine EXCEPT ![t] = 0]
    /\ ts' = [ts EXCEPT ![t] = 0]
    /\ src' = [src EXCEPT ![t] = NoSrc]
    /\ pre' = [pre EXCEPT ![t] = NoPre]
    /\ pc' = [pc EXCEPT ![t] = IF op[t] = "predict" /\ exc[t] = "none"
                                  THEN "P_assert" ELSE "done"]
    /\ UNCHANGED <<Sched, Request, booster, Disk, clock, op, exc, ret, History>>

----------------------------------------------------------------------------
\* predict (lines 124-133).

\* Lines 124-125: `if self._booster is None: self.load_or_train()`
PredictCheck(t) ==
    /\ pc[t] = "P_check"
    /\ pc' = [pc EXCEPT ![t] = IF HandleLoaded(booster) THEN "P_assert" ELSE "L_lock"]
    /\ UNCHANGED <<Sched, Request, booster, lock, Disk, clock, op, Locals, exc, ret, pre, History>>

\* Line 126: `assert self._booster is not None`
PredictAssert(t) ==
    /\ pc[t] = "P_assert"
    /\ pc' = [pc EXCEPT ![t] = IF HandleLoaded(booster) THEN "P_use" ELSE "done"]
    /\ exc' = [exc EXCEPT ![t] = IF HandleLoaded(booster) THEN "none"
                                   ELSE "AssertionError"]
    /\ UNCHANGED <<Sched, Request, booster, lock, Disk, clock, op, Locals, ret, pre, History>>

\* Lines 128-133: the predictions of the handle read on line 131.
PredictUse(t) ==
    /\ pc[t] = "P_use"
    /\ ret' = [ret EXCEPT ![t] = booster]
    /\ pc' = [pc EXCEPT ![t] = "done"]
    /\ UNCHANGED <<Sched, Request, booster, lock, Disk, clock, op, Locals, exc, pre, History>>

----------------------------------------------------------------------------
Next ==
    \E t \in Threads :
          \/ Call(t, "load_or_train")
          \/ Call(t, "train_from_file")
          \/ Call(t, "predict")
          \/ Acquire(t)
          \/ LoadNoop(t)
          \/ LoadExists(t)
          \/ LoadFile(t)
          \/ LoadFileFail(t)
          \/ LoadTrain(t)
          \/ TrainReject(t)
          \/ TrainFit(t)
          \/ TrainFitFail(t)
          \/ SaveStamp(t)
          \/ SaveTsOpen(t)
          \/ SaveTsOpenFail(t)
          \/ SaveTsFinish(t)
          \/ SaveTsFail(t)
          \/ PtrRemove(t)
          \/ PtrRemoveFail(t)
          \/ PtrRemoveSkip(t)
          \/ Symlink(t)
          \/ SymlinkExists(t)
          \/ SymlinkFail(t)
          \/ FallbackOpen(t)
          \/ FallbackOpenFail(t)
          \/ FallbackFinish(t)
          \/ FallbackFail(t)
          \/ SetHandle(t)
          \/ Release(t)
          \/ PredictCheck(t)
          \/ PredictAssert(t)
          \/ PredictUse(t)

Spec == Init /\ [][Next]_vars

\* A thread that is inside a call and can take a step eventually takes one
\* (the interpreter schedules every runnable thread); nobody is obliged to call.
ThreadRuns(t) ==
    \/ Acquire(t) \/ LoadNoop(t) \/ LoadExists(t) \/ LoadFile(t) \/ LoadFileFail(t)
    \/ LoadTrain(t) \/ TrainReject(t) \/ TrainFit(t) \/ TrainFitFail(t)
    \/ SaveStamp(t) \/ SaveTsOpen(t) \/ SaveTsOpenFail(t) \/ SaveTsFinish(t)
    \/ SaveTsFail(t) \/ PtrRemove(t) \/ PtrRemoveFail(t) \/ PtrRemoveSkip(t)
    \/ Symlink(t) \/ SymlinkExists(t) \/ SymlinkFail(t) \/ FallbackOpen(t)
    \/ FallbackOpenFail(t) \/ FallbackFinish(t) \/ FallbackFail(t) \/ SetHandle(t)
    \/ Release(t) \/ PredictCheck(t) \/ PredictAssert(t) \/ PredictUse(t)

SpecFair == Spec /\ \A t \in Threads : WF_vars(ThreadRuns(t))

----------------------------------------------------------------------------
\* main._schedule_daily_training (main.py lines 73-87), the task that
\* startup_event creates after load_or_train has returned. Time is counted in
\* hours; the task's train_from_file call is a call of thread SchedThread.

SchedThread == 1
Horizon == MaxDays * DayHours
Day(h) == h \div DayHours

\* Line 77: now.replace(hour=2, minute=0, second=0, microsecond=0)
today_run(n) == Day(n) * DayHours + RunHour

\* Mutant of NextRun: today's run is kept when now is exactly 02:00.
NextRunNotStrict(n) ==
    IF n <= today_run(n) THEN today_run(n) ELSE today_run(n) + DayHours

\* Line 78: today_run if now < today_run else today_run + timedelta(days=1)
NextRun(n) == IF n < today_run(n) THEN today_run(n) ELSE today_run(n) + DayHours

\* Mutant of Caught: the except clause names OSError only.
CaughtOSErrorOnly(e) == e \in {"FileNotFoundError", "OSError"}

\* Line 86, except Exception: every exception train_from_file raises is an
\* Exception.
Caught(e) ==
    e \in {"FileNotFoundError", "ValueError", "IndexError", "LightGBMError",
           "OSError", "AssertionError"}

\* The hours of day 0 at which the server may start.
StartHours == 0..(DayHours - 1)

\* The server has started: load_or_train has loaded the model a previous run
\* left, or has fitted and published the synthetic one.
InitSched ==
    /\ RequestOff
    /\ spc = "compute" /\ wall \in StartHours
    /\ now = 0 /\ next_run = 0 /\ wait_seconds = 0
    /\ errlog = 0 /\ failed = 0 /\ lastRun = -1
    /\ booster = 1 /\ lock = 0 /\ clock = 1
    /\ pc = [t \in Threads |-> "idle"]
    /\ op = [t \in Threads |-> "none"]
    /\ mine = [t \in Threads |-> 0]
    /\ ts = [t \in Threads |-> 0]
    /\ src = [t \in Threads |-> NoSrc]
    /\ exc = [t \in Threads |-> "none"]
    /\ ret = [t \in Threads |-> 0]
    /\ pre = [t \in Threads |-> NoPre]
    /\ nTrained = 1 /\ published = TRUE
    /\ \E s \in {0, 1} :
          /\ model_path = Link(s)
          /\ tsfile = [u \in Stamps |-> IF u = s THEN 1 ELSE 0]
          /\ writes = [u \in Stamps |-> IF u = s THEN 1 ELSE 0]
          /\ nSynth = s

Service == <<booster, lock, model_path, tsfile, clock, pc, op, mine, ts, src, exc,
             ret, pre, nTrained, nSynth, writes, published>>

\* Lines 76-80: now, today_run, next_run, wait_seconds, and the log record.
SchedCompute ==
    /\ spc = "compute"
    /\ now' = wall
    /\ next_run' = NextRun(wall)
    /\ wait_seconds' = NextRun(wall) - wall
    /\ spc' = "sleep"
    /\ UNCHANGED <<Service, Request, wall, errlog, failed, lastRun>>

\* Line 81: asyncio.sleep(wait_seconds) resumes the task wait_seconds after
\* now, or later. A negative or zero delay resumes it at once.
SchedSleep ==
    /\ spc = "sleep"
    /\ \E late \in 0..MaxLate :
          /\ now + wait_seconds + late <= Horizon
          /\ wall' = IF wait_seconds > 0 THEN now + wait_seconds + late
                                         ELSE now + late
    /\ spc' = "call"
    /\ UNCHANGED <<Service, Request, now, next_run, wait_seconds, errlog, failed,
                   lastRun>>

\* Lines 83-84: model_service.train_from_file(data_path) is called.
SchedCall ==
    /\ spc = "call"
    /\ pc[SchedThread] = "idle"
    /\ op' = [op EXCEPT ![SchedThread] = "train_from_file"]
    /\ pc' = [pc EXCEPT ![SchedThread] = "T_lock"]
    /\ lastRun' = wall
    /\ spc' = "train"
    /\ UNCHANGED <<Request, booster, lock, Disk, clock, Locals, exc, ret, pre,
                   History, wall, now, next_run, wait_seconds, errlog, failed>>

\* The call is over: its thread is free for the next cycle's call.
SchedCallOver ==
    /\ pc' = [pc EXCEPT ![SchedThread] = "idle"]
    /\ op' = [op EXCEPT ![SchedThread] = "none"]
    /\ exc' = [exc EXCEPT ![SchedThread] = "none"]
    /\ ret' = [ret EXCEPT ![SchedThread] = 0]
    /\ \E dur \in 0..MaxLate : wall' = wall + dur
    /\ UNCHANGED <<Request, booster, lock, Disk, clock, Locals, pre, History,
                   now, next_run, wait_seconds, lastRun>>

\* Lines 84-85: the call returns, the path is logged, the loop goes round.
SchedReturn ==
    /\ spc = "train"
    /\ pc[SchedThread] = "done" /\ exc[SchedThread] = "none"
    /\ spc' = "compute"
    /\ SchedCallOver
    /\ UNCHANGED <<errlog, failed>>

\* Line 86: the call raises; the except clause takes the exception or the
\* exception ends the task.
SchedExcept ==
    /\ spc = "train"
    /\ pc[SchedThread] = "done" /\ exc[SchedThread] # "none"
    /\ spc' = IF Caught(exc[SchedThread]) THEN "except" ELSE "dead"
    /\ failed' = failed + 1
    /\ SchedCallOver
    /\ UNCHANGED errlog

\* Line 87: logger.exception, then the loop goes round.
SchedLog ==
    /\ spc = "except"
    /\ errlog' = errlog + 1
    /\ spc' = "compute"
    /\ UNCHANGED <<Service, Request, wall, now, next_run, wait_seconds, failed,
                   lastRun>>

SchedStep ==
    \/ SchedCompute \/ SchedSleep \/ SchedCall \/ SchedReturn \/ SchedExcept
    \/ SchedLog

NextSched ==
    \/ SchedCompute \/ SchedSleep \/ SchedCall \/ SchedReturn \/ SchedExcept
    \/ SchedLog
    \/ \E t \in {SchedThread} :
          \/ Acquire(t) \/ TrainReject(t) \/ TrainFit(t) \/ TrainFitFail(t)
          \/ SaveStamp(t) \/ SaveTsOpen(t) \/ SaveTsOpenFail(t) \/ SaveTsFinish(t)
          \/ SaveTsFail(t) \/ PtrRemove(t) \/ PtrRemoveFail(t) \/ PtrRemoveSkip(t)
          \/ Symlink(t) \/ SymlinkExists(t) \/ SymlinkFail(t) \/ FallbackOpen(t)
          \/ FallbackOpenFail(t) \/ FallbackFinish(t) \/ FallbackFail(t)
          \/ SetHandle(t) \/ Release(t)

\* The event loop runs the task whenever it can run, and the call it makes
\* runs to its end.
SpecSched ==
    /\ InitSched /\ [][NextSched]_vars
    /\ WF_vars(SchedStep) /\ WF_vars(ThreadRuns(SchedThread))

----------------------------------------------------------------------------
\* ModelService.predict past its assertion (lines 128-133), on one request.
\* A feature value is 0 or 1; the argument is the empty list, a flat list of
\* values, or a list of rows. An array is its shape and its values in row
\* order.

Vals == {0, 1}
SeqsUpTo(S, n) == UNION {[1..k -> S] : k \in 0..n}
Rows == SeqsUpTo(Vals, MaxFeat)
Empty == [kind |-> "empty", v |-> <<>>]
Flat(r) == [kind |-> "row", v |-> r]
Batch(b) == [kind |-> "batch", v |-> b]
Inputs ==
    {Empty} \cup {Flat(r) : r \in Rows \ {<<>>}}
            \cup {Batch(b) : b \in SeqsUpTo(Rows, MaxBatch) \ {<<>>}}

RECURSIVE Flatten(_)
Flatten(b) == IF Len(b) = 0 THEN <<>> ELSE Head(b) \o Flatten(Tail(b))

\* The rows of a batch differ in length.
Ragged(f) == f.kind = "batch" /\ \E i \in 1..Len(f.v) : Len(f.v[i]) # Len(f.v[1])

\* Line 128: np.asarray(list(features), dtype=np.float32), for lists it accepts.
asarray(f) ==
    IF f.kind = "batch"
    THEN [shape |-> <<Len(f.v), Len(f.v[1])>>, data |-> Flatten(f.v)]
    ELSE [shape |-> <<Len(f.v)>>, data |-> f.v]

ndim(A) == Len(A.shape)

\* Lines 129-130: if X.ndim == 1: X = X.reshape(1, -1)
Normalize(A) ==
    IF ndim(A) = 1 THEN [shape |-> <<1, A.shape[1]>>, data |-> A.data] ELSE A

\* Row i of a 2-D array.
RowOf(A, i) == SubSeq(A.data, (i - 1) * A.shape[2] + 1, i * A.shape[2])

RECURSIVE Weighted(_, _)
Weighted(r, k) == IF Len(r) = 0 THEN 0 ELSE k * Head(r) + Weighted(Tail(r), k + 1)

\* The model h's prediction for one row: a function of the model and of the
\* row's values in their order.
Score(h, r) == (h + Weighted(r, 1)) % 3

\* Lines 131-133: self._booster.predict(X).tolist(). The library takes a 2-D
\* array with the model's number of columns and returns one value per row.
BoosterPredict(h, n, A) ==
    IF ndim(A) # 2 THEN [exc |-> "ValueError", values |-> <<>>]
    ELSE IF A.shape[2] # n THEN [exc |-> "LightGBMError", values |-> <<>>]
    ELSE [exc |-> "none", values |-> [i \in 1..A.shape[1] |-> Score(h, RowOf(A, i))]]

\* The handle is loaded, with model 1 of a previous run or with model 2 of a
\* retraining, and predict is called on some input.
InitPredict ==
    /\ SchedOff
    /\ ppc = "asarray" /\ features \in Inputs
    /\ X = NoArray /\ preds = NoPreds
    /\ twin = [features |-> NoInput, preds |-> NoPreds]
    /\ nfeat \in 1..MaxFeat
    /\ lock = 0 /\ clock = 1
    /\ pc = [t \in Threads |-> "idle"]
    /\ op = [t \in Threads |-> "none"]
    /\ mine = [t \in Threads |-> 0]
    /\ ts = [t \in Threads |-> 0]
    /\ src = [t \in Threads |-> NoSrc]
    /\ exc = [t \in Threads |-> "none"]
    /\ ret = [t \in Threads |-> 0]
    /\ pre = [t \in Threads |-> NoPre]
    /\ nSynth = 0 /\ published = TRUE
    /\ \E m \in {1, 2} :
          /\ booster = m /\ nTrained = m
          /\ model_path = Link(m - 1)
          /\ tsfile = [u \in Stamps |-> IF u < m THEN u + 1 ELSE 0]
          /\ writes = [u \in Stamps |-> IF u < m THEN 1 ELSE 0]

\* Line 128: the array is built, or numpy rejects rows of unequal length.
PredictAsArray ==
    /\ ppc = "asarray"
    /\ IF Ragged(features)
       THEN /\ preds' = [exc |-> "ValueError", values |-> <<>>]
            /\ ppc' = "done"
            /\ X' = X
       ELSE /\ X' = asarray(features)
            /\ ppc' = "reshape"
            /\ preds' = preds
    /\ UNCHANGED <<Service, Sched, features, twin, nfeat>>

\* Lines 129-130.
PredictReshape ==
    /\ ppc = "reshape"
    /\ X' = Normalize(X)
    /\ ppc' = "run"
    /\ UNCHANGED <<Service, Sched, features, preds, twin, nfeat>>

\* Lines 131-133.
PredictRun ==
    /\ ppc = "run"
    /\ preds' = BoosterPredict(booster, nfeat, X)
    /\ ppc' = "done"
    /\ UNCHANGED <<Service, Sched, features, X, twin, nfeat>>

\* The caller of a flat row calls again with that row as a batch of one.
PredictTwin ==
    /\ ppc = "done"
    /\ features.kind = "row" /\ twin.features.kind = "none"
    /\ twin' = [features |-> features, preds |-> preds]
    /\ features' = Batch(<<features.v>>)
    /\ X' = NoArray /\ preds' = NoPreds
    /\ ppc' = "asarray"
    /\ UNCHANGED <<Service, Sched, nfeat>>

NextPredict == PredictAsArray \/ PredictReshape \/ PredictRun \/ PredictTwin

SpecPredict == InitPredict /\ [][NextPredict]_vars

----------------------------------------------------------------------------
\* Properties.

\* Thread t is at the end of the with block of operation o, about to release
\* the lock: returning when e is "none", raising otherwise.
Leaving(t) == pc[t] = "unlock"
Returning(t) == Leaving(t) /\ exc[t] = "none"
Raising(t) == Leaving(t) /\ exc[t] # "none"
Ensures(t) == op[t] \in {"load_or_train", "predict"}
Trains(t) == op[t] = "train_from_file"

\* C1: once a model has been published, model_path resolves in every
\* reachable state (every step of _save_booster included) to a completely
\* written model file: never missing, dangling or partial.
C1_LatestAlwaysComplete ==
    published => Resolve(model_path, tsfile) > 0

\* C2: when train_from_file ends in an exception, the handle and the
\* canonical pointer (its entry and the content it resolves to) are as they
\* were when the call took the lock.
C2_FailedTrainChangesNothing ==
    \A t \in Threads :
        (Trains(t) /\ Raising(t)) =>
            /\ booster = pre[t].b
            /\ model_path = pre[t].p
            /\ Resolve(model_path, tsfile) = pre[t].c

C3_OnlyEnsureCalls ==
    /\ tsfile[0] = 0
    /\ \A t \in Threads : ~Trains(t) /\ exc[t] = "none"
C3_AllReturned ==
    /\ \A t \in Threads : pc[t] \in {"idle", "done"}
    /\ \E t \in Threads : pc[t] = "done"
\* C3: when only load_or_train and predict are called, over an empty models
\* directory and an unloaded handle, and no call raises, at most one
\* synthetic model is ever fitted; once every call has returned exactly one
\* was fitted, it is the handle and the published model, and every predict
\* used that handle.
C3_OneSyntheticModel ==
    C3_OnlyEnsureCalls =>
        /\ nSynth <= 1
        /\ C3_AllReturned =>
              /\ nSynth = 1
              /\ nTrained = 1
              /\ booster = 1
              /\ Resolve(model_path, tsfile) = 1
              /\ \A t \in Threads : (pc[t] = "done" /\ op[t] = "predict") => ret[t] = booster

\* C3 witness: every thread has called load_or_train or predict over the
\* empty directory and returned, one of them through predict.
C3_Witness ==
    /\ C3_OnlyEnsureCalls
    /\ \A t \in Threads : pc[t] = "done"
    /\ \E t \in Threads : op[t] = "predict" /\ ret[t] = 1
    /\ \E t \in Threads : op[t] = "load_or_train"
    /\ nSynth = 1

\* C4: the path a successful train_from_file returns was written by no
\* earlier persist: its own line-34 write is the only one to that path.
C4_ReturnedPathIsNew ==
    \A t \in Threads :
        (Trains(t) /\ Returning(t)) => writes[ret[t]] = 1

\* C5: a completely written timestamped file never changes afterwards.
C5_TimestampedFileImmutable ==
    [][\A s \in Stamps : tsfile[s] > 0 => tsfile'[s] = tsfile[s]]_vars

\* C6: when train_from_file returns, model_path resolves to the model this
\* call fitted, which is the content of the timestamped file whose path it
\* returns and the most recently fitted model.
C6_LatestIsReturnedModel ==
    \A t \in Threads :
        (Trains(t) /\ Returning(t)) =>
            /\ mine[t] > 0
            /\ Resolve(model_path, tsfile) = mine[t]
            /\ tsfile[ret[t]] = mine[t]
            /\ mine[t] = nTrained

\* C6 witness: a train_from_file call returns with model_path a link to the
\* file it wrote.
C6_Witness ==
    \E t \in Threads :
        /\ Trains(t) /\ Returning(t)
        /\ model_path = Link(ret[t])
        /\ tsfile[ret[t]] = mine[t]

C7_NothingDone(t) ==
    /\ Leaving(t)
    /\ mine[t] = 0
    /\ model_path = pre[t].p
    /\ tsfile = pre[t].fs
\* C7: on a missing source train_from_file raises FileNotFoundError, on a
\* source whose lines have fewer than 2 fields it raises ValueError, and in
\* both cases nothing was fitted and nothing on disk was written.
C7_RejectsBadSource ==
    \A t \in Threads :
        (Trains(t) /\ src[t] # NoSrc) =>
            /\ ~src[t].exists => (C7_NothingDone(t) /\ exc[t] = "FileNotFoundError")
            /\ (src[t].exists /\ ~src[t].ragged /\ src[t].cols < 2) =>
                  (C7_NothingDone(t) /\ exc[t] = "ValueError")

\* C8: when load_or_train returns after finding the handle unloaded and no
\* file at model_path, the handle is the model it fitted and model_path
\* resolves to that model, completely written; when it found a file at
\* model_path, the handle is that file's content and nothing was fitted or
\* written.
C8_LoadOrTrainComplete ==
    \A t \in Threads :
        (Ensures(t) /\ Returning(t) /\ pre[t].b = None) =>
            IF exists(pre[t].p, pre[t].fs)
            THEN /\ booster = pre[t].c
                 /\ mine[t] = 0
                 /\ model_path = pre[t].p
                 /\ tsfile = pre[t].fs
            ELSE /\ mine[t] > 0
                 /\ booster = mine[t]
                 /\ exists(model_path, tsfile)
                 /\ Resolve(model_path, tsfile) = mine[t]

\* C8 witness: load_or_train returns after fitting and persisting the
\* synthetic model, having found no handle and no file.
C8_Witness ==
    \E t \in Threads :
        /\ Ensures(t) /\ Returning(t)
        /\ pre[t].b = None
        /\ ~exists(pre[t].p, pre[t].fs)
        /\ booster = mine[t]
        /\ mine[t] > 0

\* C9: a load_or_train that finds the handle loaded goes straight to its
\* return: it never loads, fits or persists, and the handle, the canonical
\* pointer and every timestamped file stay as it found them.
C9_LoadedIsNoop ==
    \A t \in Threads :
        (Ensures(t) /\ lock = t /\ pre[t].b # None) =>
            /\ pc[t] \in {"L_in", "unlock"}
            /\ exc[t] = "none"
            /\ mine[t] = 0
            /\ booster = pre[t].b
            /\ model_path = pre[t].p
            /\ tsfile = pre[t].fs

\* C9 witness: load_or_train is returning, having found the handle loaded.
C9_Witness ==
    \E t \in Threads :
        /\ op[t] = "load_or_train"
        /\ lock = t
        /\ pre[t].b # None
        /\ Returning(t)

C10_LockFreeStep ==
    \A t \in Threads :
        (pc[t] = "P_check" /\ booster # None /\ pc'[t] # pc[t]) =>
            (pc'[t] = "P_assert" /\ lock' = lock)
C10_NeverBlocked ==
    \A t \in Threads :
        (pc[t] \in {"P_check", "P_assert", "P_use"}) =>
            ENABLED (PredictCheck(t) \/ PredictAssert(t) \/ PredictUse(t))
\* C10: a predict that finds the handle loaded on line 124 goes on to line
\* 126 without touching the lock, and from there every step of predict can
\* be taken whoever holds the lock.
C10_PredictNeverLocks ==
    [][C10_LockFreeStep]_vars /\ []C10_NeverBlocked

\* C10 witness: one thread is inside train_from_file holding the lock, having
\* fitted the first and only model, and a predict call has completed on
\* that model meanwhile.
C10_Witness ==
    \E t, u \in Threads :
        /\ t # u
        /\ lock = u /\ Trains(u) /\ Leaving(u)
        /\ mine[u] = 1 /\ nTrained = 1 /\ tsfile[0] = 0
        /\ pc[t] = "done" /\ op[t] = "predict" /\ ret[t] = 1

\* Thread t is inside a with self._lock block; t waits to enter one.
InLock(t) ==
    pc[t] \in {"L_in", "L_load", "T_in", "S_ts", "S_w1", "S_w2", "S_rm", "S_ln",
               "S_f1", "S_f2", "S_set", "unlock"}
Waiting(t) == pc[t] \in {"L_lock", "T_lock"}

C11_HolderInside == \A t \in Threads : InLock(t) => lock = t
C11_WriteUnderLock ==
    (booster' # booster \/ model_path' # model_path \/ tsfile' # tsfile) =>
        \E t \in Threads :
            /\ lock = t /\ lock' = t
            /\ InLock(t)
            /\ pc'[t] # pc[t]
            /\ \A u \in Threads \ {t} : pc'[u] = pc[u]
\* C11: a thread inside load_or_train or train_from_file holds the lock (so
\* at most one thread is inside either), and every step that changes the
\* handle, model_path or a timestamped file is a step of the lock's holder.
C11_LockSerialises ==
    []C11_HolderInside /\ [][C11_WriteUnderLock]_vars

\* C11 witness: one thread is half way through the fallback write while
\* another waits for the lock.
C11_Witness ==
    \E t, u \in Threads :
        /\ lock = t /\ pc[t] = "S_f2"
        /\ Waiting(u)

\* The data rows of a source: its lines but the header.
DataRows(s) == s.lines - (IF s.header THEN 1 ELSE 0)

\* C14: on an existing CSV whose lines all have the same number (at least
\* 2) of fields, with N >= 1 data rows, with or without a header,
\* train_from_file raises no ValueError and fits on exactly the N data rows.
C14_FitsAllDataRows ==
    \A t \in Threads :
        (/\ Trains(t) /\ src[t] # NoSrc
         /\ src[t].exists /\ ~src[t].ragged
         /\ src[t].cols >= 2 /\ DataRows(src[t]) >= 1) =>
            /\ exc[t] # "ValueError"
            /\ CheckSource(src[t]) = "ok" => FitRows(src[t]) = DataRows(src[t])

C15_Step(t) ==
    /\ (pc[t] = "S_ln" /\ pc'[t] # "S_ln" /\ model_path' = model_path) =>
          (pc'[t] = "S_f1" /\ exc'[t] = "none")
    /\ (pc[t] = "S_f2" /\ pc'[t] = "S_set") =>
          /\ Resolve(model_path', tsfile') = mine[t]
          /\ model_path.kind # "link" => model_path' = File(mine[t])
    /\ (pc[t] = "S_set" /\ pc'[t] # "S_set") =>
          /\ pc'[t] = "unlock" /\ exc'[t] = "none"
          /\ booster' = mine[t]
          /\ Trains(t) => ret'[t] = ts[t]
\* C15: when os.symlink fails, the call raises nothing and goes on to write
\* the model to model_path; when that write completes, model_path holds the
\* new model (as a regular file unless an old link is still in place), and
\* the call ends as in the link case: the handle is the new model and
\* train_from_file returns the timestamped path.
C15_LinkFailureFallsBack ==
    [][\A t \in Threads : C15_Step(t)]_vars

\* C15 witness: train_from_file returns over a directory that had no
\* pointer, with the new model written to model_path as a regular file.
C15_Witness ==
    \E t \in Threads :
        /\ Trains(t) /\ Returning(t)
        /\ pre[t].p = Absent
        /\ model_path = File(mine[t])
        /\ booster = mine[t]
        /\ ret[t] = ts[t]

C17_Loaded ==
    \A t \in Threads :
        /\ exc[t] # "AssertionError"
        /\ (Ensures(t) /\ Returning(t)) => booster # None
        /\ pc[t] \in {"P_assert", "P_use"} => booster # None
\* C17: predict's assertion never fails: load_or_train never returns with
\* the handle None, the handle is loaded whenever a thread is at or past the
\* assertion, and no step sets a loaded handle back to None.
C17_AssertionHolds ==
    []C17_Loaded /\ [][booster # None => booster' # None]_vars

\* C17 witness: a predict is at its assertion while another thread is
\* inside train_from_file, replacing the handle.
C17_Witness ==
    \E t, u \in Threads :
        /\ pc[t] = "P_assert"
        /\ Trains(u) /\ pc[u] = "S_set"

C18_HeldOnlyInside == \A t \in Threads : lock = t => InLock(t)
\* C18: the lock is held only by a thread inside a with block (never after
\* a return or an exception, never by a thread that is about to acquire
\* it), and under fair scheduling every thread that waits for the lock
\* eventually holds it.
C18_LockAlwaysReleased ==
    /\ []C18_HeldOnlyInside
    /\ \A t \in Threads : Waiting(t) ~> (lock = t)

\* C18 witness: a thread holds the lock after an earlier train_from_file
\* call left the with block on an exception, half way through its write.
C18_Witness ==
    \E t, u \in Threads :
        /\ pc[u] = "done" /\ Trains(u) /\ exc[u] # "none"
        /\ lock = t /\ pc[t] = "S_ts"
        /\ \E s \in Stamps : tsfile[s] = -(mine[t] - 1)

\* C19: whenever the lock is free and the handle is loaded, the handle is
\* the model that model_path resolves to.
C19_ServedIsPublished ==
    (lock = 0 /\ booster # None) => booster = Resolve(model_path, tsfile)

C12_NeverDead == spc # "dead"
C12_EveryFailureLogged ==
    \/ errlog = failed
    \/ spc = "except" /\ failed = errlog + 1
\* C12: a scheduled training that raises never ends the task, every failure
\* is logged before the loop goes on, and after every failure the loop comes
\* to its sleep again, the next run computed.
C12_FailureKeepsLoop ==
    /\ []C12_NeverDead
    /\ []C12_EveryFailureLogged
    /\ (spc = "except") ~> (spc = "sleep" /\ errlog = failed /\ next_run > now)

\* C12 witness: a scheduled training is running after an earlier one failed.
C12_Witness ==
    /\ failed >= 1 /\ errlog = failed
    /\ spc = "train" /\ pc[SchedThread] = "S_ts"

\* The run times, and the earliest one not before / after hour n.
RunTimes == {d * DayHours + RunHour : d \in 0..(MaxDays + 2)}
EarliestNotBefore(n) ==
    CHOOSE r \in RunTimes : r >= n /\ \A q \in RunTimes : q >= n => r <= q
EarliestAfter(n) ==
    CHOOSE r \in RunTimes : r > n /\ \A q \in RunTimes : q > n => r <= q

\* The wait is positive and at most a day; a training starts at or after its
\* run time; when the loop comes round on the day of the training it has just
\* run, the next run is on the following day; no day sees two trainings.
C16_Rest ==
    /\ spc = "sleep" =>
          /\ wait_seconds > 0 /\ wait_seconds <= DayHours
          /\ wait_seconds = next_run - now
          /\ (lastRun >= 0 /\ Day(now) = Day(lastRun)) =>
                Day(next_run) = Day(lastRun) + 1
    /\ spc = "call" =>
          /\ wall >= next_run
          /\ lastRun >= 0 => Day(wall) > Day(lastRun)

BatchOfModelRows(f) ==
    /\ f.kind \in {"batch", "empty"}
    /\ \A i \in 1..Len(f.v) : Len(f.v[i]) = nfeat

\* The flat row and the batch of that one row get the same result.
C13_RowAsBatch ==
    (ppc = "done" /\ twin.features.kind = "row") =>
        /\ features.kind = "batch" /\ features.v = <<twin.features.v>>
        /\ preds = twin.preds

\* C13: predict on a flat row and on the batch of that one row give the same
\* result, and predict on a batch of n rows of the model's width returns n
\* values, the i-th being the model's prediction for the i-th row.
C13_OnePerRowInOrder ==
    /\ C13_RowAsBatch
    /\ (ppc = "done" /\ BatchOfModelRows(features)) =>
          /\ preds.exc = "none"
          /\ Len(preds.values) = Len(features.v)
          /\ \A i \in 1..Len(features.v) :
                preds.values[i] = Score(booster, features.v[i])

====
